---- MODULE Spec2Model ----
(***************************************************************************)
(* Schedule optimisation of CalendarOptimizer.                             *)
(*                                                                         *)
(* Two optimisers live in the repository and both are modelled:            *)
(*   - the React front end (frontend/src/App.tsx): localOptimize with its  *)
(*     hasConflict helper, fed by handleEventCreate,                       *)
(*     handleBatchEventCreate and handleEventDelete;                       *)
(*   - the legacy page script (app.js): localOptimization with             *)
(*     findAvailableSlot and findConflicts.                                *)
(*                                                                         *)
(* Time is counted in minutes since local midnight of day 0; day d has     *)
(* weekday d % 7 (0 = Sunday).  An ISO timestamp is the minute count, a    *)
(* Date's getHours() is (t % 1440) \div 60 and toDateString() is           *)
(* t \div 1440.  Hours that the code keeps as fractional numbers (8.5) are *)
(* kept here as minutes (510); every comparison is scaled by 60.           *)
(***************************************************************************)
EXTENDS Integers, Sequences, FiniteSets, TLC

VARIABLES
    events,     \* App.tsx: the `events` React state (a list of Event records)
    now,        \* the clock: what `new Date()` returns, in minutes
    created,    \* number of handleEventCreate calls so far (ids Date.now())
    batched,    \* number of handleBatchEventCreate calls so far
    lastRun,    \* history: input, clock and output of the latest localOptimize
                \* run and of the run before it
    jsEvents,   \* app.js: this.events of the CalendarOptimizer object
    jsLastRun,  \* history: input and output of the latest localOptimization
    calendarData, \* App.tsx: the `calendarData` React state; its `events`
                \* field always mirrors `events` and is left out
    isLoading,  \* App.tsx: the `isLoading` React state
    pending,    \* handler calls waiting for the API; each holds the `events`
                \* of the render that started it
    createdEvents, \* history: the events a finished handler has created
    deletedIds, \* history: ids a finished handleEventDelete has removed
    search,     \* the slot search in progress, one loop iteration at a time
    timeInfo    \* nlp.ts: what the latest extractTimeInfo call has read

stepVars == <<calendarData, isLoading, pending, createdEvents, deletedIds,
              search, timeInfo>>
vars == <<events, now, created, batched, lastRun, jsEvents, jsLastRun,
          stepVars>>
appVars == <<events, now, created, batched, lastRun, stepVars>>
jsVars == <<jsEvents, jsLastRun>>

-----------------------------------------------------------------------------
(* Bounds of the exploration *)
MaxCreates == 2
MaxBatches == 1
MaxTicks == 2
MaxJsEvents == 3
MaxLongEvents == 11
MaxPending == 2

(* The calendar day on which the page is opened (a Thursday, at 09:15),    *)
(* the day the user names in the windows typed into the form or the chat   *)
(* (the Friday after it), and the step of the clock (half a day)           *)
FirstDay == 4
WindowDay == 5
FirstMinute == 555
TickMinutes == 720

(* Program constants *)
workDayStart == 8
workDayEnd == 20
HorizonDays == 14
SlotMinutes == 30
DefaultDuration == 60
DefaultPriority == 2

MinutesPerDay == 1440

(* `undefined` for the optional numeric fields of an Event *)
Undefined == -1

(* fixedTime is a string.  <<h, m, ap>> stands for a string in which the   *)
(* expression /(\d{1,2}):(\d{2})\s*(AM|PM)?/i finds hours h, minutes m and *)
(* the suffix ap ("" when absent); NoTime is undefined or the empty        *)
(* string; Garbled is a non-empty string the expression does not match.    *)
NoTime == << >>
Garbled == <<"?">>

Truthy(fixedTime) == fixedTime # NoTime

-----------------------------------------------------------------------------
(* App.tsx 203-212 and 235-245: the regular expression and the AM/PM       *)
(* adjustment.  Returns <<hour24, minutes>>, or << >> when nothing matches. *)
timeMatch(fixedTime) ==
    IF Len(fixedTime) # 3 THEN << >>
    ELSE LET hours == fixedTime[1]
             minutes == fixedTime[2]
             ampm == fixedTime[3]
             hour24 == IF ampm = "PM" /\ hours # 12 THEN hours + 12
                       ELSE IF ampm = "AM" /\ hours = 12 THEN 0
                       ELSE hours
         IN <<hour24, minutes>>

(* date.setHours(h, m, 0, 0): the calendar day of `date` is kept, its time *)
(* of day is overwritten (hours of 24 and more roll over to the next day)  *)
setHours(date, h, m) == (date \div MinutesPerDay) * MinutesPerDay + h * 60 + m

(* the Date of calendar day `day` at h:m *)
at(day, h, m) == day * MinutesPerDay + h * 60 + m

getDay(t) == (t \div MinutesPerDay) % 7
getHours(t) == (t % MinutesPerDay) \div 60
toDateString(t) == t \div MinutesPerDay

(* a sort that puts an event in front of the events of its own priority *)
RECURSIVE insertBeforeEquals(_, _)
insertBeforeEquals(sorted, e) ==
    IF sorted = << >> THEN <<e>>
    ELSE IF sorted[Len(sorted)].priority < e.priority
         THEN Append(sorted, e)
         ELSE Append(insertBeforeEquals(SubSeq(sorted, 1, Len(sorted) - 1), e),
                     sorted[Len(sorted)])

-----------------------------------------------------------------------------
(* App.tsx 177: [...events].sort((a, b) => a.priority - b.priority).       *)
(* Array.prototype.sort is stable: an insertion sort that keeps the input  *)
(* order of equal priorities.                                              *)
RECURSIVE insertByPriority(_, _)
insertByPriority(sorted, e) ==
    IF sorted = << >> THEN <<e>>
    ELSE IF sorted[Len(sorted)].priority <= e.priority
         THEN Append(sorted, e)
         ELSE Append(insertByPriority(SubSeq(sorted, 1, Len(sorted) - 1), e),
                     sorted[Len(sorted)])

RECURSIVE sortByPriority(_)
sortByPriority(list) ==
    IF list = << >> THEN << >>
    ELSE insertByPriority(sortByPriority(SubSeq(list, 1, Len(list) - 1)),
                          list[Len(list)])

(* App.tsx 180-181: the two filters *)
isFixedEvent(event) == event.type = "mandatory" \/ Truthy(event.fixedTime)
isFlexibleEvent(event) == event.type = "flexible" /\ ~Truthy(event.fixedTime)

fixedEvents(list) == SelectSeq(sortByPriority(list), isFixedEvent)
flexibleEvents(list) == SelectSeq(sortByPriority(list), isFlexibleEvent)

(* App.tsx 189-221: the body of fixedEvents.forEach for one event *)
scheduleFixed(event, date) ==
    IF event.dayOfWeek # Undefined /\ Truthy(event.fixedTime)
    THEN [event EXCEPT !.isScheduled = TRUE, !.scheduledTime = Undefined]
    ELSE IF Truthy(event.fixedTime) /\ event.dayOfWeek = Undefined
              /\ timeMatch(event.fixedTime) # << >>
         THEN LET tm == timeMatch(event.fixedTime)
              IN [event EXCEPT !.isScheduled = TRUE,
                               !.scheduledTime = setHours(date, tm[1], tm[2])]
         ELSE [event EXCEPT !.isScheduled = TRUE]

(* App.tsx 186: const scheduledEvents: Event[] = [] *)
emptyScheduledEvents == << >>

RECURSIVE scheduleAllFixed(_, _, _)
scheduleAllFixed(list, date, scheduledEvents) ==
    IF list = << >> THEN scheduledEvents
    ELSE scheduleAllFixed(Tail(list), date,
                          Append(scheduledEvents, scheduleFixed(Head(list), date)))

(* App.tsx 228-274: the callback of scheduledEvents.some for one existing  *)
(* event.  checkDay is a Date; checkMin and durMin are checkHour and       *)
(* durationHours times 60.                                                 *)
conflictsWith(existingEvent, checkDay, checkMin, durMin) ==
    LET checkDayOfWeek == getDay(checkDay)
        checkEnd == checkMin + durMin
        scheduledBranch ==
            /\ existingEvent.scheduledTime # Undefined
            /\ toDateString(existingEvent.scheduledTime) = toDateString(checkDay)
            /\ LET existingHour == getHours(existingEvent.scheduledTime)
                   existingEnd == existingHour * 60 + existingEvent.duration
               IN checkMin < existingEnd /\ checkEnd > existingHour * 60
    IN IF existingEvent.dayOfWeek # Undefined /\ Truthy(existingEvent.fixedTime)
       THEN IF existingEvent.dayOfWeek # checkDayOfWeek THEN FALSE
            ELSE IF timeMatch(existingEvent.fixedTime) = << >> THEN FALSE
            ELSE LET hour24 == timeMatch(existingEvent.fixedTime)[1]
                     existingEnd == hour24 * 60 + existingEvent.duration
                 IN \/ (checkMin < existingEnd /\ checkEnd > hour24 * 60)
                    \/ scheduledBranch
       ELSE scheduledBranch

(* hasConflict looking at the weekly events only *)
hasConflictRecurringOnly(scheduledEvents, checkDay, checkMin, durMin) ==
    \E i \in 1..Len(scheduledEvents) :
        /\ scheduledEvents[i].dayOfWeek # Undefined
        /\ conflictsWith(scheduledEvents[i], checkDay, checkMin, durMin)

(* App.tsx 224-275 *)
hasConflict(scheduledEvents, checkDay, checkMin, durMin) ==
    \E i \in 1..Len(scheduledEvents) :
        conflictsWith(scheduledEvents[i], checkDay, checkMin, durMin)

(* A search that starts at the current time of day, rounded up to the     *)
(* half hour, instead of at workDayStart                                   *)
firstHourFromNow(tryDay) ==
    LET minute == tryDay % MinutesPerDay
        rounded == ((minute + SlotMinutes - 1) \div SlotMinutes) * SlotMinutes
    IN IF rounded > workDayStart * 60 THEN rounded ELSE workDayStart * 60

(* App.tsx 301: `let hour = workDayStart`, whatever the time of tryDay *)
firstHour(tryDay) == workDayStart * 60

(* the inner loop with the bound `hour <= workDayEnd`, the duration of the *)
(* event left out                                                          *)
RECURSIVE tryHoursToEndOfDay(_, _, _, _)
tryHoursToEndOfDay(scheduledEvents, tryDay, hourMin, durMin) ==
    IF ~(hourMin <= workDayEnd * 60) THEN Undefined
    ELSE IF ~hasConflict(scheduledEvents, tryDay, hourMin, durMin)
         THEN hourMin
         ELSE tryHoursToEndOfDay(scheduledEvents, tryDay, hourMin + SlotMinutes,
                                 durMin)

(* App.tsx 301-318: the inner loop over the half hours of one day.         *)
(* Returns the first free start minute of the day, or Undefined.           *)
RECURSIVE tryHours(_, _, _, _)
tryHours(scheduledEvents, tryDay, hourMin, durMin) ==
    IF ~(hourMin <= workDayEnd * 60 - durMin) THEN Undefined
    ELSE IF ~hasConflict(scheduledEvents, tryDay, hourMin, durMin)
         THEN hourMin
         ELSE tryHours(scheduledEvents, tryDay, hourMin + SlotMinutes, durMin)

(* the outer loop without the test that skips Saturday and Sunday *)
RECURSIVE tryDaysWithWeekends(_, _, _, _)
tryDaysWithWeekends(scheduledEvents, searchDay, dayOffset, durMin) ==
    IF ~(dayOffset < HorizonDays) THEN Undefined
    ELSE LET tryDay == searchDay + dayOffset * 24 * 60
             hour == tryHours(scheduledEvents, tryDay, firstHour(tryDay), durMin)
         IN IF hour # Undefined
            THEN setHours(tryDay, hour \div 60, hour % 60)
            ELSE tryDaysWithWeekends(scheduledEvents, searchDay, dayOffset + 1,
                                     durMin)

(* App.tsx 289-319: the outer loop over the days.  Returns the             *)
(* scheduledTime of the first free slot, or Undefined.                     *)
RECURSIVE tryDays(_, _, _, _)
tryDays(scheduledEvents, searchDay, dayOffset, durMin) ==
    IF ~(dayOffset < HorizonDays) THEN Undefined
    ELSE LET tryDay == searchDay + dayOffset * 24 * 60
         IN IF getDay(tryDay) = 0 \/ getDay(tryDay) = 6
            THEN tryDays(scheduledEvents, searchDay, dayOffset + 1, durMin)
            ELSE LET hour == tryHours(scheduledEvents, tryDay,
                                      firstHour(tryDay), durMin)
                 IN IF hour # Undefined
                    THEN setHours(tryDay, hour \div 60, hour % 60)
                    ELSE tryDays(scheduledEvents, searchDay, dayOffset + 1, durMin)

(* App.tsx 278-326: the body of flexibleEvents.forEach for one event;      *)
(* searchDay is `new Date()`                                               *)
scheduleFlexible(event, searchDay, scheduledEvents) ==
    LET scheduleTime == tryDays(scheduledEvents, searchDay, 0, event.duration)
    IN IF scheduleTime # Undefined
       THEN Append(scheduledEvents,
                   [event EXCEPT !.scheduledTime = scheduleTime,
                                 !.isScheduled = TRUE])
       ELSE Append(scheduledEvents, [event EXCEPT !.isScheduled = FALSE])

RECURSIVE scheduleAllFlexible(_, _, _)
scheduleAllFlexible(list, date, scheduledEvents) ==
    IF list = << >> THEN scheduledEvents
    ELSE scheduleAllFlexible(Tail(list), date,
                             scheduleFlexible(Head(list), date, scheduledEvents))

(* App.tsx 172-340: the list that localOptimize hands to setEvents when    *)
(* it runs at the instant `date`                                           *)
optimize(list, date) ==
    scheduleAllFlexible(flexibleEvents(list), date,
        scheduleAllFixed(fixedEvents(list), date, emptyScheduledEvents))

-----------------------------------------------------------------------------
(* The Event records the producers hand to the handlers (types/Event.ts).  *)
Event(id, type, priority, duration, fixedTime, dayOfWeek, earliestStart, latestStart) ==
    [id |-> id, type |-> type, priority |-> priority, duration |-> duration,
     fixedTime |-> fixedTime, dayOfWeek |-> dayOfWeek,
     earliestStart |-> earliestStart, latestStart |-> latestStart,
     scheduledTime |-> Undefined, isScheduled |-> FALSE]

EventData(type, priority, duration, fixedTime, dayOfWeek, earliestStart, latestStart) ==
    Event(0, type, priority, duration, fixedTime, dayOfWeek, earliestStart, latestStart)

(* What the chat assistants hand to handleEventCreate on day `day`:        *)
(* aiChat.ts parseAIResponse spreads the model's JSON (no window, any      *)
(* duration, any type), nlp.ts parseNaturalLanguage adds a fixedTime (a    *)
(* 12-hour time was found) or a window (a three-hour window for a time     *)
(* word, 09:00-17:00 of the target day otherwise).                         *)
ChatInputs ==
    { EventData("flexible", 1, 60, NoTime, Undefined, Undefined, Undefined),
      EventData("flexible", 3, 0, NoTime, Undefined, Undefined, Undefined),
      EventData("flexible", 2, 240, NoTime, Undefined,
                at(WindowDay, 9, 0), at(WindowDay, 12, 0)),
      EventData("fixed", 2, 60, <<8, 30, "">>, Undefined, Undefined, Undefined),
      EventData("fixed", 2, 60, Garbled, Undefined, Undefined, Undefined),
      EventData("fixed", 2, 60, NoTime, Undefined,
                at(WindowDay, 9, 0), at(WindowDay, 17, 0)),
      EventData("mandatory", 1, 60, <<9, 0, "AM">>, Undefined, Undefined, Undefined),
      EventData("flexible", 2, 750, NoTime, Undefined, Undefined, Undefined) }

(* The fields of the form of EventForm (the strings are kept as numbers,   *)
(* Undefined is the empty field).                                          *)
FormData(type, priority, duration, fixedTime, earliestStart, latestStart) ==
    [type |-> type, priority |-> priority, duration |-> duration,
     fixedTime |-> fixedTime, earliestStart |-> earliestStart,
     latestStart |-> latestStart]

FormInputs ==
    { FormData("flexible", 2, 60, NoTime, Undefined, Undefined),
      FormData("flexible", 2, 60, NoTime, at(WindowDay, 9, 0), at(WindowDay, 10, 0)),
      FormData("flexible", 2, 60, NoTime, at(WindowDay, 9, 0), at(WindowDay, 9, 0)),
      FormData("flexible", 2, 60, NoTime, at(WindowDay, 9, 0), at(WindowDay, 9, 30)),
      FormData("flexible", 2, 10, NoTime, Undefined, Undefined),
      FormData("fixed", 2, 60, NoTime, Undefined, Undefined),
      FormData("mandatory", 1, 60, NoTime, Undefined, Undefined) }

(* What ScheduleUpload hands to handleBatchEventCreate: one mandatory      *)
(* event of priority 1 per class and weekday, with dayOfWeek and the time  *)
(* string read off the picture.                                            *)
ClassEvent(dayOfWeek, fixedTime, duration) ==
    EventData("mandatory", 1, duration, fixedTime, dayOfWeek, Undefined, Undefined)

FullWeek ==
    << ClassEvent(1, <<8, 0, "AM">>, 720), ClassEvent(2, <<8, 0, "AM">>, 720),
       ClassEvent(3, <<8, 0, "AM">>, 720), ClassEvent(4, <<8, 0, "AM">>, 720),
       ClassEvent(5, <<8, 0, "AM">>, 720) >>

(* one class of an hour at 9:30, on the weekday the page is opened *)
OneClass == << ClassEvent(FirstDay % 7, <<9, 30, "AM">>, 60) >>

UploadInputs == { FullWeek, OneClass }

(* the event of scenario 4 as the chat assistant hands it over: flexible,  *)
(* priority 2, eight hours, no window                                      *)
LongEvent ==
    EventData("flexible", 2, 480, NoTime, Undefined, Undefined, Undefined)

-----------------------------------------------------------------------------
(* EventForm.handleSubmit 35-72: the validation; TRUE when no error is set. *)
(* The title is taken to be filled in.                                      *)
formWindow(formData, date) ==
    IF formData.type = "flexible"
       /\ formData.earliestStart = Undefined /\ formData.latestStart = Undefined
    THEN [earliestStart |-> setHours(date + MinutesPerDay, 9, 0),
          latestStart |-> setHours(date + MinutesPerDay, 17, 0)]
    ELSE [earliestStart |-> formData.earliestStart,
          latestStart |-> formData.latestStart]

formValid(formData, date) ==
    LET w == formWindow(formData, date)
    IN /\ ~(formData.duration < 15)
       /\ ~(formData.type = "fixed" /\ ~Truthy(formData.fixedTime))
       /\ (formData.type = "flexible"
             /\ w.earliestStart # Undefined /\ w.latestStart # Undefined)
          => /\ ~(w.earliestStart >= w.latestStart)
             /\ ~(w.latestStart - w.earliestStart < formData.duration)

(* EventForm.handleSubmit 80-98: the event object handed to onEventCreate *)
formEventData(formData, date) ==
    LET w == formWindow(formData, date)
    IN EventData(formData.type, formData.priority, formData.duration,
                 IF formData.type = "fixed" THEN formData.fixedTime ELSE NoTime,
                 Undefined,
                 IF formData.type = "flexible" THEN w.earliestStart ELSE Undefined,
                 IF formData.type = "flexible" THEN w.latestStart ELSE Undefined)

(* App.tsx 76-84: the event built when the API call fails (the spread of   *)
(* eventData wins over the defaults, isScheduled starts false unless       *)
(* eventData carries it).                                                  *)
localEvent(eventData, id) == [eventData EXCEPT !.id = id]

-----------------------------------------------------------------------------
(* StatusBar.tsx 26: events.filter(e => e.isScheduled) *)
scheduledCount(list) ==
    Cardinality({ i \in 1..Len(list) : list[i].isScheduled })

(* the percentage cut off instead of rounded *)
getSuccessRateFloor(list) ==
    IF Len(list) = 0 THEN 0
    ELSE (scheduledCount(list) * 100) \div Len(list)

(* StatusBar.tsx 31-34: getSuccessRate; Math.round rounds halves up *)
getSuccessRate(list) ==
    IF Len(list) = 0 THEN 0
    ELSE (2 * scheduledCount(list) * 100 + Len(list)) \div (2 * Len(list))

-----------------------------------------------------------------------------
(* app.js, the page script of the Flask application.  Its events carry     *)
(* fixed_time, earliest_start, latest_start and scheduled_time (Undefined  *)
(* stands for null or absent).                                             *)

(* app.js 115-123: the calendar built when the page is loaded *)
calendar ==
    [startDate |-> at(FirstDay, 8, 0), endDate |-> at(FirstDay, 18, 0)]

JsStepMinutes == 15

JsEventData(duration, priority, fixed_time, earliest_start, latest_start) ==
    [id |-> 0, duration |-> duration, priority |-> priority,
     fixed_time |-> fixed_time, earliest_start |-> earliest_start,
     latest_start |-> latest_start, scheduled_time |-> Undefined]

(* what the user types into the form of the page: a fixed date and time,   *)
(* or an earliest and a latest start                                       *)
JsInputs ==
    { JsEventData(360, 1, Undefined, at(FirstDay, 9, 0), at(FirstDay, 17, 0)),
      JsEventData(360, 3, Undefined, at(FirstDay, 9, 0), at(FirstDay, 17, 0)),
      JsEventData(60, 2, Undefined, at(FirstDay, 9, 0), at(FirstDay, 17, 0)),
      JsEventData(60, 2, at(FirstDay, 9, 0), Undefined, Undefined),
      JsEventData(60, 1, Undefined, at(FirstDay, 9, 0), at(FirstDay, 9, 30)),
      JsEventData(60, 2, Undefined, Undefined, at(FirstDay, 17, 0)) }

(* app.js 182-200: the checks of addEvent *)
jsFormValid(eventData) ==
    \/ eventData.fixed_time # Undefined
    \/ (eventData.earliest_start # Undefined /\ eventData.latest_start # Undefined)

(* app.js 285-290: the callback of scheduledEvents.some *)
jsConflictsWith(scheduled, currentTime, eventEnd) ==
    LET scheduledStart == scheduled.scheduled_time
        scheduledEnd == scheduledStart + scheduled.duration
    IN ~(eventEnd <= scheduledStart \/ currentTime >= scheduledEnd)

(* app.js 279-302: the while loop of findAvailableSlot *)
RECURSIVE jsSearch(_, _, _, _)
jsSearch(event, scheduledEvents, currentTime, endConstraint) ==
    IF ~(currentTime <= endConstraint) THEN Undefined
    ELSE LET eventEnd == currentTime + event.duration
             conflict == \E i \in 1..Len(scheduledEvents) :
                            jsConflictsWith(scheduledEvents[i], currentTime, eventEnd)
         IN IF ~conflict /\ currentTime >= calendar.startDate
                         /\ eventEnd <= calendar.endDate
            THEN currentTime
            ELSE jsSearch(event, scheduledEvents, currentTime + JsStepMinutes,
                          endConstraint)

(* app.js 270-303 *)
findAvailableSlot(event, scheduledEvents) ==
    LET startTime == IF event.fixed_time # Undefined THEN event.fixed_time
                     ELSE IF event.earliest_start # Undefined
                          THEN event.earliest_start
                          ELSE calendar.startDate
        endConstraint == IF event.latest_start # Undefined THEN event.latest_start
                         ELSE calendar.endDate - event.duration
    IN jsSearch(event, scheduledEvents, startTime, endConstraint)

(* app.js 256: unscheduled.sort((a, b) => b.priority - a.priority), stable *)
RECURSIVE jsInsertByPriority(_, _)
jsInsertByPriority(sorted, e) ==
    IF sorted = << >> THEN <<e>>
    ELSE IF sorted[Len(sorted)].priority >= e.priority
         THEN Append(sorted, e)
         ELSE Append(jsInsertByPriority(SubSeq(sorted, 1, Len(sorted) - 1), e),
                     sorted[Len(sorted)])

RECURSIVE jsSortByPriority(_)
jsSortByPriority(list) ==
    IF list = << >> THEN << >>
    ELSE jsInsertByPriority(jsSortByPriority(SubSeq(list, 1, Len(list) - 1)),
                            list[Len(list)])

jsIsScheduled(e) == e.scheduled_time # Undefined
jsIsUnscheduled(e) == ~jsIsScheduled(e)

(* app.js 258-264: the loop over the sorted unscheduled events.  Returns   *)
(* the `scheduled` array at the end of the loop.                           *)
RECURSIVE jsPlaceAll(_, _)
jsPlaceAll(unscheduled, scheduled) ==
    IF unscheduled = << >> THEN scheduled
    ELSE LET event == Head(unscheduled)
             slot == findAvailableSlot(event, scheduled)
         IN IF slot # Undefined
            THEN jsPlaceAll(Tail(unscheduled),
                            Append(scheduled, [event EXCEPT !.scheduled_time = slot]))
            ELSE jsPlaceAll(Tail(unscheduled), scheduled)

(* app.js 250-268: this.events after localOptimization (the events are     *)
(* updated in place, the array keeps its order)                            *)
localOptimization(list) ==
    LET scheduled == jsPlaceAll(jsSortByPriority(SelectSeq(list, jsIsUnscheduled)),
                                SelectSeq(list, jsIsScheduled))
    IN [k \in 1..Len(list) |->
          IF \E i \in 1..Len(scheduled) : scheduled[i].id = list[k].id
          THEN LET i == CHOOSE i \in 1..Len(scheduled) : scheduled[i].id = list[k].id
               IN scheduled[i]
          ELSE list[k]]

(* app.js 462-475: the two loops of findConflicts over the events that    *)
(* carry a scheduled_time; a pushed pair [event1, event2] is kept as the   *)
(* pair of their ids                                                       *)
RECURSIVE jsConflictLoop(_, _, _, _)
jsConflictLoop(scheduled, i, j, conflicts) ==
    IF i > Len(scheduled) THEN conflicts
    ELSE IF j > Len(scheduled)
         THEN jsConflictLoop(scheduled, i + 1, i + 2, conflicts)
         ELSE LET event1 == scheduled[i]
                  event2 == scheduled[j]
                  start1 == event1.scheduled_time
                  end1 == start1 + event1.duration
                  start2 == event2.scheduled_time
                  end2 == start2 + event2.duration
              IN IF ~(end1 <= start2 \/ end2 <= start1)
                 THEN jsConflictLoop(scheduled, i, j + 1,
                                     Append(conflicts, <<event1.id, event2.id>>))
                 ELSE jsConflictLoop(scheduled, i, j + 1, conflicts)

(* findConflicts without its filter on scheduled_time *)
findConflictsUnfiltered(list) ==
    jsConflictLoop(list, 1, 2, << >>)

(* app.js 458-479 *)
findConflicts(list) ==
    jsConflictLoop(SelectSeq(list, jsIsScheduled), 1, 2, << >>)

(* An event as the API hands it to the page (app.js 238: this.events =     *)
(* result.events): a class of the weekly schedule carries dayOfWeek and    *)
(* fixedTime and no scheduled_time, a dated event carries scheduled_time.  *)
ApiEvent(duration, scheduled_time, dayOfWeek, fixedTime) ==
    [id |-> 0, duration |-> duration, priority |-> DefaultPriority,
     scheduled_time |-> scheduled_time, dayOfWeek |-> dayOfWeek,
     fixedTime |-> fixedTime]

(* the Monday after the day the page is opened *)
ApiMonday == FirstDay + 4

ApiEvents ==
    { ApiEvent(60, Undefined, 1, <<9, 0, "">>),
      ApiEvent(60, Undefined, 1, <<9, 30, "">>),
      ApiEvent(60, Undefined, 2, <<9, 0, "">>),
      ApiEvent(60, at(ApiMonday, 9, 0), Undefined, NoTime),
      ApiEvent(60, at(ApiMonday, 9, 30), Undefined, NoTime),
      ApiEvent(60, at(ApiMonday + 1, 9, 30), Undefined, NoTime),
      ApiEvent(60, at(ApiMonday, 23, 30), Undefined, NoTime),
      ApiEvent(30, at(ApiMonday + 1, 0, 0), Undefined, NoTime) }

(* the lists of at most MaxJsEvents such events, ids by position *)
ApiLists ==
    UNION { { [k \in 1..n |-> [f[k] EXCEPT !.id = k]] : f \in [1..n -> ApiEvents] } :
            n \in 0..MaxJsEvents }

-----------------------------------------------------------------------------
(* extractTimeInfo has not been called *)
NoTimeInfo ==
    [today |-> Undefined, word |-> "", targetDay |-> Undefined,
     targetDate |-> Undefined, fixedTime |-> Undefined]

(* no slot search in progress *)
NoSearch ==
    [pc |-> "idle", scheduledEvents |-> << >>, duration |-> 0,
     searchDay |-> 0, dayOffset |-> 0, hour |-> 0, startTime |-> 0,
     currentTime |-> 0, endConstraint |-> 0, steps |-> 0, result |-> Undefined]

NoRun ==
    [runs |-> 0, in |-> << >>, now |-> Undefined, out |-> << >>,
     prevIn |-> << >>, prevNow |-> Undefined, prevOut |-> << >>]

Init ==
    /\ events = << >>
    /\ now = at(FirstDay, 0, FirstMinute)
    /\ created = 0
    /\ batched = 0
    /\ lastRun = NoRun
    /\ jsEvents = << >>
    /\ jsLastRun = [runs |-> 0, in |-> << >>, out |-> << >>]
    /\ calendarData = [conflicts |-> << >>]
    /\ isLoading = FALSE
    /\ pending = {}
    /\ createdEvents = {}
    /\ deletedIds = {}
    /\ search = NoSearch
    /\ timeInfo = NoTimeInfo

(* App.tsx 52-91, called by the chat assistant (ChatBot.handleAddEvent) *)
handleEventCreate ==
    /\ created < MaxCreates
    /\ \E eventData \in ChatInputs :
          events' = Append(events, localEvent(eventData, created + 1))
    /\ created' = created + 1
    /\ lastRun' = NoRun
    /\ UNCHANGED <<now, batched, jsEvents, jsLastRun, stepVars>>

(* EventForm.handleSubmit 25-100 followed by App.tsx 52-91 *)
handleSubmit ==
    /\ created < MaxCreates
    /\ \E formData \in FormInputs :
          /\ formValid(formData, now)
          /\ events' = Append(events,
                 localEvent(formEventData(formData, now), created + 1))
    /\ created' = created + 1
    /\ lastRun' = NoRun
    /\ UNCHANGED <<now, batched, jsEvents, jsLastRun, stepVars>>

(* App.tsx 93-142 *)
handleBatchEventCreate ==
    /\ batched < MaxBatches
    /\ \E eventsData \in UploadInputs :
          events' = events \o
              [i \in 1..Len(eventsData) |->
                  localEvent(eventsData[i], 100 * (batched + 1) + i)]
    /\ batched' = batched + 1
    /\ lastRun' = NoRun
    /\ UNCHANGED <<now, created, jsEvents, jsLastRun, stepVars>>

(* App.tsx 157-170 with the API call failing, then 172-340 *)
localOptimize ==
    /\ events' = optimize(events, now)
    /\ lastRun' = [runs |-> IF lastRun.runs = 0 THEN 1 ELSE 2,
                   in |-> events, now |-> now, out |-> events',
                   prevIn |-> lastRun.in, prevNow |-> lastRun.now,
                   prevOut |-> lastRun.out]
    /\ UNCHANGED <<now, created, batched, jsEvents, jsLastRun, stepVars>>

(* the clock advances *)
Tick ==
    /\ now < at(FirstDay, 0, FirstMinute) + MaxTicks * TickMinutes
    /\ now' = now + TickMinutes
    /\ UNCHANGED <<events, created, batched, lastRun, jsEvents, jsLastRun,
                   stepVars>>

(* app.js 170-228 with the API call failing *)
jsAddEvent ==
    /\ Len(jsEvents) < MaxJsEvents
    /\ \E eventData \in JsInputs :
          /\ jsFormValid(eventData)
          /\ jsEvents' = Append(jsEvents,
                 [eventData EXCEPT !.id = Len(jsEvents) + 1])
    /\ jsLastRun' = [runs |-> 0, in |-> << >>, out |-> << >>]
    /\ UNCHANGED appVars

(* app.js 230-248 with the API call failing, then 250-268 *)
jsLocalOptimization ==
    /\ jsEvents' = localOptimization(jsEvents)
    /\ jsLastRun' = [runs |-> IF jsLastRun.runs = 0 THEN 1 ELSE 2,
                     in |-> jsEvents, out |-> jsEvents']
    /\ UNCHANGED appVars

Next ==
    \/ handleEventCreate
    \/ handleSubmit
    \/ handleBatchEventCreate
    \/ localOptimize
    \/ Tick

Spec == Init /\ [][Next]_vars

(* app.js 230-241: optimizeSchedule with the API answering; the page     *)
(* takes the list of events the answer carries                             *)
jsLoadEvents ==
    /\ \E list \in ApiLists : jsEvents' = list
    /\ jsLastRun' = [runs |-> 0, in |-> << >>, out |-> << >>]
    /\ UNCHANGED appVars

(* the page opened on any day of the week that begins on FirstDay *)
InitWeek ==
    /\ events = << >>
    /\ now \in { at(FirstDay + k, 0, FirstMinute) : k \in 0..6 }
    /\ created = 0
    /\ batched = 0
    /\ lastRun = NoRun
    /\ jsEvents = << >>
    /\ jsLastRun = [runs |-> 0, in |-> << >>, out |-> << >>]
    /\ calendarData = [conflicts |-> << >>]
    /\ isLoading = FALSE
    /\ pending = {}
    /\ createdEvents = {}
    /\ deletedIds = {}
    /\ search = NoSearch
    /\ timeInfo = NoTimeInfo

NextWeek ==
    \/ handleEventCreate
    \/ handleSubmit
    \/ handleBatchEventCreate
    \/ localOptimize

SpecWeek == InitWeek /\ [][NextWeek]_vars

(* App.tsx 52-91, called by the chat assistant with the event of          *)
(* scenario 4                                                              *)
handleEventCreateLong ==
    /\ created < MaxLongEvents
    /\ events' = Append(events, localEvent(LongEvent, created + 1))
    /\ created' = created + 1
    /\ lastRun' = NoRun
    /\ UNCHANGED <<now, batched, jsEvents, jsLastRun, stepVars>>

(* scenario 4 on any day of the week *)
NextLong ==
    \/ handleEventCreateLong
    \/ localOptimize

SpecLong == InitWeek /\ [][NextLong]_vars

(* the page script on its own *)
NextJs ==
    \/ jsAddEvent
    \/ jsLocalOptimization

SpecJs == Init /\ [][NextJs]_vars

(* the page script showing what the API hands it *)
NextApi ==
    \/ jsLoadEvents

SpecApi == Init /\ [][NextApi]_vars

-----------------------------------------------------------------------------
(* The handlers of App.tsx with their await: a call runs up to its API     *)
(* request, other handlers may be called while the request is out, and the *)
(* call resumes with the `events` of the render that started it.  The API  *)
(* does not answer (apiStatus is 'disconnected').  While isLoading is set  *)
(* the form and the buttons are disabled, the event list is replaced by a  *)
(* placeholder and an overlay covers the page (App.tsx 409, 418, 532-539;  *)
(* EventForm 310; EventsList 110), so no handler can be called.            *)

(* the events created while requests are out: two of the chat assistant's *)
(* events and the upload of one class                                      *)
AsyncChatInputs ==
    { EventData("flexible", 1, 60, NoTime, Undefined, Undefined, Undefined),
      EventData("fixed", 2, 60, <<8, 30, "">>, Undefined, Undefined, Undefined) }

AsyncUploadInputs == { OneClass }

(* a call waiting for its request *)
Call(op, list, new, id) == [op |-> op, events |-> list, new |-> new, id |-> id]

(* the `events` a resumed handler reads: those of its own closure *)
closureEvents(call) == call.events

(* App.tsx 52-66: handleEventCreate up to `await ApiService.createEvent` *)
callEventCreate ==
    /\ ~isLoading
    /\ created < MaxCreates
    /\ \E eventData \in AsyncChatInputs :
          pending' = pending \cup
              { Call("create", events, <<localEvent(eventData, created + 1)>>,
                     Undefined) }
    /\ created' = created + 1
    /\ isLoading' = TRUE
    /\ UNCHANGED <<events, now, batched, lastRun, jsEvents, jsLastRun,
                   calendarData, createdEvents, deletedIds, search, timeInfo>>

(* App.tsx 73-90: the request has failed, the local event is appended *)
resumeEventCreate ==
    \E call \in pending :
        /\ call.op = "create"
        /\ events' = closureEvents(call) \o call.new
        /\ createdEvents' = createdEvents \cup { call.new[1] }
        /\ pending' = pending \ {call}
        /\ isLoading' = FALSE
        /\ UNCHANGED <<now, created, batched, lastRun, jsEvents, jsLastRun,
                       calendarData, deletedIds, search, timeInfo>>

(* App.tsx 93-112: handleBatchEventCreate up to its first await *)
callBatchEventCreate ==
    /\ ~isLoading
    /\ batched < MaxBatches
    /\ \E eventsData \in AsyncUploadInputs :
          pending' = pending \cup
              { Call("batch", events,
                     [i \in 1..Len(eventsData) |->
                         localEvent(eventsData[i], 100 * (batched + 1) + i)],
                     Undefined) }
    /\ batched' = batched + 1
    /\ isLoading' = TRUE
    /\ UNCHANGED <<events, now, created, lastRun, jsEvents, jsLastRun,
                   calendarData, createdEvents, deletedIds, search, timeInfo>>

(* App.tsx 116-141: every request has failed, the local events are added *)
resumeBatchEventCreate ==
    \E call \in pending :
        /\ call.op = "batch"
        /\ events' = closureEvents(call) \o call.new
        /\ createdEvents' = createdEvents \cup
                              { call.new[i] : i \in 1..Len(call.new) }
        /\ pending' = pending \ {call}
        /\ isLoading' = FALSE
        /\ UNCHANGED <<now, created, batched, lastRun, jsEvents, jsLastRun,
                       calendarData, deletedIds, search, timeInfo>>

(* App.tsx 144-146: handleEventDelete up to `await ApiService.deleteEvent`; *)
(* it does not set isLoading                                                *)
callEventDelete ==
    /\ ~isLoading
    /\ Cardinality(pending) < MaxPending
    /\ \E i \in 1..Len(events) :
          pending' = pending \cup { Call("delete", events, << >>, events[i].id) }
    /\ UNCHANGED <<events, now, created, batched, lastRun, jsEvents, jsLastRun,
                   calendarData, isLoading, createdEvents, deletedIds, search,
                   timeInfo>>

(* App.tsx 147-151: apiStatus === 'disconnected', the event is filtered out *)
resumeEventDelete ==
    \E call \in pending :
        /\ call.op = "delete"
        /\ LET others(e) == e.id # call.id
           IN events' = SelectSeq(closureEvents(call), others)
        /\ deletedIds' = deletedIds \cup {call.id}
        /\ pending' = pending \ {call}
        /\ UNCHANGED <<now, created, batched, lastRun, jsEvents, jsLastRun,
                       calendarData, isLoading, createdEvents, search, timeInfo>>

(* App.tsx 157-160: handleOptimizeSchedule up to its await; the button is  *)
(* disabled while the list is empty                                        *)
callOptimizeSchedule ==
    /\ ~isLoading
    /\ Len(events) > 0
    /\ pending' = pending \cup { Call("optimize", events, << >>, Undefined) }
    /\ isLoading' = TRUE
    /\ UNCHANGED <<events, now, created, batched, lastRun, jsEvents, jsLastRun,
                   calendarData, createdEvents, deletedIds, search, timeInfo>>

(* App.tsx 163-169: the request has failed, localOptimize runs *)
resumeOptimizeSchedule ==
    \E call \in pending :
        /\ call.op = "optimize"
        /\ events' = optimize(closureEvents(call), now)
        /\ pending' = pending \ {call}
        /\ isLoading' = FALSE
        /\ UNCHANGED <<now, created, batched, lastRun, jsEvents, jsLastRun,
                       calendarData, createdEvents, deletedIds, search, timeInfo>>

NextAsync ==
    \/ callEventCreate
    \/ resumeEventCreate
    \/ callBatchEventCreate
    \/ resumeBatchEventCreate
    \/ callEventDelete
    \/ resumeEventDelete
    \/ callOptimizeSchedule
    \/ resumeOptimizeSchedule

SpecAsync == Init /\ [][NextAsync]_vars

-----------------------------------------------------------------------------
(* nlp.ts: the day and the time the chat assistant reads in a sentence.    *)

(* date-fns addDays *)
addDays(date, amount) == date + amount * MinutesPerDay

(* a getNextWeekday that stays on `date` when it is the wanted weekday *)
getThisOrNextWeekday(date, targetDay) ==
    LET currentDay == getDay(date)
        daysToAdd == targetDay - currentDay
    IN addDays(date, IF daysToAdd < 0 THEN daysToAdd + 7 ELSE daysToAdd)

(* nlp.ts 463-472 *)
getNextWeekday(date, targetDay) ==
    LET currentDay == getDay(date)
        daysToAdd == targetDay - currentDay
    IN addDays(date, IF daysToAdd <= 0 THEN daysToAdd + 7 ELSE daysToAdd)

(* What TIME_PATTERNS.time12 (nlp.ts 11) finds in a sentence: <<h, m, p>>  *)
(* for hours 1-12, minutes 0-59 or Undefined when the sentence has none,   *)
(* and the suffix am or pm                                                 *)
TimeStrings ==
    { <<3, Undefined, "pm">>, <<12, 30, "am">>, <<12, 0, "pm">>,
      <<9, 15, "am">> }

(* nlp.ts 446-461: <<hours, minutes>> *)
parseTimeString(timeStr) ==
    LET hours == timeStr[1]
        minutes == IF timeStr[2] = Undefined THEN 0 ELSE timeStr[2]
        period == timeStr[3]
    IN IF period = "pm" THEN <<IF hours # 12 THEN hours + 12 ELSE hours, minutes>>
       ELSE IF period = "am" /\ hours = 12 THEN <<0, minutes>>
       ELSE <<hours, minutes>>

(* nlp.ts 349-383: the day word, then the time of day *)
extractTimeInfo ==
    \E word \in {"", "tomorrow", "weekday"}, targetDay \in 0..6,
       timeStr \in TimeStrings :
        /\ (word # "weekday" => targetDay = 0)
        /\ LET today == now
               targetDate == IF word = "tomorrow" THEN addDays(today, 1)
                             ELSE IF word = "weekday"
                                  THEN getNextWeekday(today, targetDay)
                                  ELSE today
               parsedTime == parseTimeString(timeStr)
           IN timeInfo' =
                [today |-> today, word |-> word,
                 targetDay |-> IF word = "weekday" THEN targetDay ELSE Undefined,
                 targetDate |-> targetDate,
                 fixedTime |-> setHours(targetDate, parsedTime[1], parsedTime[2])]
        /\ UNCHANGED <<events, now, created, batched, lastRun, jsEvents,
                       jsLastRun, calendarData, isLoading, pending, createdEvents,
                       deletedIds, search>>

NextNlp ==
    \/ extractTimeInfo
    \/ Tick

SpecNlp == InitWeek /\ [][NextNlp]_vars

-----------------------------------------------------------------------------
(* The two slot searches one loop iteration at a time.  JavaScript runs a  *)
(* handler to completion: while a search is in progress no other handler   *)
(* runs, and a loop that can take a step takes it.                         *)

(* the lists of at most two valid inputs of the page, ids by position *)
JsSearchLists ==
    UNION { { [k \in 1..n |-> [f[k] EXCEPT !.id = k]] :
                f \in [1..n -> { d \in JsInputs : jsFormValid(d) }] } :
            n \in 0..2 }

(* a page loop that never moves to another slot *)
sameSlot(currentTime) == currentTime

(* app.js 299: currentTime = new Date(currentTime.getTime() + 15 * 60000) *)
nextSlot(currentTime) == currentTime + JsStepMinutes

(* App.tsx 278-286: flexibleEvents.forEach reaches its i-th event; the     *)
(* fixed events and the flexible events before it are in scheduledEvents   *)
searchBegin ==
    /\ search.pc = "idle"
    /\ \E i \in 1..Len(flexibleEvents(events)) :
          search' = [NoSearch EXCEPT
              !.pc = "day",
              !.scheduledEvents =
                  scheduleAllFlexible(SubSeq(flexibleEvents(events), 1, i - 1), now,
                      scheduleAllFixed(fixedEvents(events), now,
                                       emptyScheduledEvents)),
              !.duration = flexibleEvents(events)[i].duration,
              !.searchDay = now]
    /\ UNCHANGED <<events, now, created, batched, lastRun, jsEvents, jsLastRun,
                   calendarData, isLoading, pending, createdEvents, deletedIds,
                   timeInfo>>

(* App.tsx 289-297: the head of the loop over the days *)
forDay ==
    /\ search.pc = "day"
    /\ LET tryDay == search.searchDay + search.dayOffset * 24 * 60
       IN search' =
            IF ~(search.dayOffset < HorizonDays)
            THEN [search EXCEPT !.pc = "done"]
            ELSE IF getDay(tryDay) = 0 \/ getDay(tryDay) = 6
                 THEN [search EXCEPT !.dayOffset = @ + 1]
                 ELSE [search EXCEPT !.pc = "hour", !.hour = firstHour(tryDay)]
    /\ UNCHANGED <<events, now, created, batched, lastRun, jsEvents, jsLastRun,
                   calendarData, isLoading, pending, createdEvents, deletedIds,
                   timeInfo>>

(* App.tsx 301-318: one pass of the loop over the half hours *)
forHour ==
    /\ search.pc = "hour"
    /\ LET tryDay == search.searchDay + search.dayOffset * 24 * 60
       IN search' =
            IF ~(search.hour <= workDayEnd * 60 - search.duration)
            THEN [search EXCEPT !.pc = "day", !.dayOffset = @ + 1]
            ELSE IF ~hasConflict(search.scheduledEvents, tryDay, search.hour,
                                 search.duration)
                 THEN [search EXCEPT
                          !.pc = "done", !.steps = @ + 1,
                          !.result = setHours(tryDay, search.hour \div 60,
                                              search.hour % 60)]
                 ELSE [search EXCEPT !.hour = @ + SlotMinutes, !.steps = @ + 1]
    /\ UNCHANGED <<events, now, created, batched, lastRun, jsEvents, jsLastRun,
                   calendarData, isLoading, pending, createdEvents, deletedIds,
                   timeInfo>>

(* app.js 259-260 and 270-279: localOptimization reaches an event after    *)
(* it has placed the events before it                                      *)
jsSearchBegin ==
    /\ search.pc = "idle"
    /\ \E list \in JsSearchLists, event \in JsInputs :
          /\ jsFormValid(event)
          /\ \A k \in 1..Len(list) : list[k].priority >= event.priority
          /\ search' = [NoSearch EXCEPT
                !.pc = "while",
                !.scheduledEvents = jsPlaceAll(jsSortByPriority(list), << >>),
                !.duration = event.duration,
                !.startTime =
                    IF event.fixed_time # Undefined THEN event.fixed_time
                    ELSE IF event.earliest_start # Undefined
                         THEN event.earliest_start
                         ELSE calendar.startDate,
                !.currentTime =
                    IF event.fixed_time # Undefined THEN event.fixed_time
                    ELSE IF event.earliest_start # Undefined
                         THEN event.earliest_start
                         ELSE calendar.startDate,
                !.endConstraint =
                    IF event.latest_start # Undefined THEN event.latest_start
                    ELSE calendar.endDate - event.duration]
    /\ UNCHANGED <<events, now, created, batched, lastRun, jsEvents, jsLastRun,
                   calendarData, isLoading, pending, createdEvents, deletedIds,
                   timeInfo>>

(* app.js 281-302: one pass of the while loop of findAvailableSlot *)
jsWhile ==
    /\ search.pc = "while"
    /\ LET currentTime == search.currentTime
           eventEnd == currentTime + search.duration
           conflict == \E i \in 1..Len(search.scheduledEvents) :
                           jsConflictsWith(search.scheduledEvents[i],
                                           currentTime, eventEnd)
       IN search' =
            IF ~(currentTime <= search.endConstraint)
            THEN [search EXCEPT !.pc = "done"]
            ELSE IF ~conflict /\ currentTime >= calendar.startDate
                              /\ eventEnd <= calendar.endDate
                 THEN [search EXCEPT !.pc = "done", !.steps = @ + 1,
                                     !.result = currentTime]
                 ELSE [search EXCEPT !.currentTime = nextSlot(currentTime),
                                     !.steps = @ + 1]
    /\ UNCHANGED <<events, now, created, batched, lastRun, jsEvents, jsLastRun,
                   calendarData, isLoading, pending, createdEvents, deletedIds,
                   timeInfo>>

(* App.tsx 320-326 and app.js 261-264: the result is taken and the loop    *)
(* over the events goes on                                                 *)
searchEnd ==
    /\ search.pc = "done"
    /\ search' = NoSearch
    /\ UNCHANGED <<events, now, created, batched, lastRun, jsEvents, jsLastRun,
                   calendarData, isLoading, pending, createdEvents, deletedIds,
                   timeInfo>>

(* a handler that is called between two searches *)
betweenSearches(handler) == search.pc = "idle" /\ handler

NextSearch ==
    \/ betweenSearches(handleEventCreate)
    \/ betweenSearches(handleBatchEventCreate)
    \/ searchBegin
    \/ forDay
    \/ forHour
    \/ jsSearchBegin
    \/ jsWhile
    \/ searchEnd

SpecSearch ==
    /\ Init
    /\ [][NextSearch]_vars
    /\ WF_vars(forDay) /\ WF_vars(forHour) /\ WF_vars(jsWhile)

-----------------------------------------------------------------------------
(* Vocabulary of the properties: the time an event really occupies, at     *)
(* minute precision.                                                       *)

(* a weekly event: dayOfWeek and a fixedTime that can be read *)
isRecurring(e) == e.dayOfWeek # Undefined /\ timeMatch(e.fixedTime) # << >>

(* an event with a date of its own *)
isOneOff(e) == e.scheduledTime # Undefined

hasConcreteTime(e) == isOneOff(e) \/ isRecurring(e)

(* anchored: kind fixed or mandatory, or carrying a dayOfWeek *)
isAnchored(e) == e.type \in {"fixed", "mandatory"} \/ e.dayOfWeek # Undefined

minuteOfDay(e) ==
    IF isOneOff(e) THEN e.scheduledTime % MinutesPerDay
    ELSE timeMatch(e.fixedTime)[1] * 60 + timeMatch(e.fixedTime)[2]

(* half-open intervals [s1, s1 + d1) and [s2, s2 + d2) meet *)
intervalsMeet(s1, d1, s2, d2) == s1 < s2 + d2 /\ s2 < s1 + d1

(* the occupied intervals of a and b meet on a date they share *)
reallyOverlap(a, b) ==
    IF isOneOff(a) /\ isOneOff(b)
    THEN intervalsMeet(a.scheduledTime, a.duration, b.scheduledTime, b.duration)
    ELSE /\ IF isOneOff(a) THEN getDay(a.scheduledTime) = b.dayOfWeek
            ELSE IF isOneOff(b) THEN getDay(b.scheduledTime) = a.dayOfWeek
            ELSE a.dayOfWeek = b.dayOfWeek
         /\ intervalsMeet(minuteOfDay(a), a.duration, minuteOfDay(b), b.duration)

(* a one-off stand-in for a candidate start of an event of the given length *)
candidateEvent(start, duration) ==
    [Event(0, "flexible", DefaultPriority, duration, NoTime, Undefined,
           Undefined, Undefined) EXCEPT !.scheduledTime = start]

(* the candidate starts of the grid for a search that begins at `date`:    *)
(* the 14 days from its calendar day on, weekdays only, every half hour    *)
(* from 08:00 while the event still ends by 20:00                          *)
gridCandidates(date, duration) ==
    { at(d, 0, m) :
        <<d, m>> \in { c \in ((date \div MinutesPerDay)..(date \div MinutesPerDay + HorizonDays - 1))
                              \X { workDayStart * 60 + SlotMinutes * k : k \in 0..24 } :
                         /\ c[1] % 7 \notin {0, 6}
                         /\ c[2] + duration <= workDayEnd * 60 } }

(* the candidates that really overlap no event of `placed` that is         *)
(* scheduled at a concrete time                                            *)
freeCandidates(placed, date, duration) ==
    { c \in gridCandidates(date, duration) :
        \A i \in 1..Len(placed) :
            (placed[i].isScheduled /\ hasConcreteTime(placed[i]))
               => ~reallyOverlap(placed[i], candidateEvent(c, duration)) }

(* the output events that carry the id of e *)
outputsOf(out, e) == { i \in 1..Len(out) : out[i].id = e.id }

(* duration <= 0 or a fixedTime that cannot be read *)
isMalformed(e) ==
    e.duration <= 0 \/ (Truthy(e.fixedTime) /\ timeMatch(e.fixedTime) = << >>)

hasWindow(e) == e.earliestStart # Undefined /\ e.latestStart # Undefined

sameDay(t1, t2) == t1 \div MinutesPerDay = t2 \div MinutesPerDay

-----------------------------------------------------------------------------
(* C1.  After optimize no two scheduled output events with a concrete time *)
(* that are not both anchored occupy overlapping intervals (minute         *)
(* precision) on a date they share.                                        *)
C1_NoOverlapInOutput ==
    \A i, j \in 1..Len(lastRun.out) :
        LET a == lastRun.out[i]
            b == lastRun.out[j]
        IN (/\ i < j
            /\ a.isScheduled /\ b.isScheduled
            /\ hasConcreteTime(a) /\ hasConcreteTime(b)
            /\ a.duration > 0 /\ b.duration > 0
            /\ ~(isAnchored(a) /\ isAnchored(b)))
           => ~reallyOverlap(a, b)

(* C2.  Every anchored input event (kind fixed or mandatory, or recurring) *)
(* is output exactly once, with isScheduled = true and the dayOfWeek,      *)
(* fixedTime and start time it had on input (a fixedTime without dayOfWeek *)
(* means the day of the run).                                              *)
anchoredStart(e, date) ==
    IF timeMatch(e.fixedTime) # << >>
    THEN IF e.dayOfWeek # Undefined
         THEN <<e.dayOfWeek, timeMatch(e.fixedTime)[1], timeMatch(e.fixedTime)[2]>>
         ELSE <<setHours(date, timeMatch(e.fixedTime)[1], timeMatch(e.fixedTime)[2])>>
    ELSE IF e.scheduledTime # Undefined THEN <<e.scheduledTime>> ELSE << >>

resolvedStart(e) ==
    IF e.scheduledTime # Undefined THEN <<e.scheduledTime>>
    ELSE IF isRecurring(e)
         THEN <<e.dayOfWeek, timeMatch(e.fixedTime)[1], timeMatch(e.fixedTime)[2]>>
         ELSE << >>

C2_AnchoredNeverRelocated ==
    \A k \in 1..Len(lastRun.in) :
        LET e == lastRun.in[k]
        IN isAnchored(e) =>
             /\ Cardinality(outputsOf(lastRun.out, e)) = 1
             /\ \A i \in outputsOf(lastRun.out, e) :
                   LET o == lastRun.out[i]
                   IN /\ o.isScheduled
                      /\ o.dayOfWeek = e.dayOfWeek
                      /\ o.fixedTime = e.fixedTime
                      /\ resolvedStart(o) = anchoredStart(e, lastRun.now)

(* C3.  A flexible event with earliestStart and latestStart that optimize  *)
(* placed lies inside its window: earliestStart <= scheduledTime and       *)
(* scheduledTime + duration <= latestStart.  (Stated for the windows wide  *)
(* enough to hold the event; the narrower ones are the subject of C10.)    *)
C3_PlacedInsideWindow ==
    \A i \in 1..Len(lastRun.out) :
        LET o == lastRun.out[i]
        IN (/\ isFlexibleEvent(o) /\ o.isScheduled /\ hasWindow(o)
            /\ o.latestStart - o.earliestStart >= o.duration)
           => /\ o.earliestStart <= o.scheduledTime
              /\ o.scheduledTime + o.duration <= o.latestStart

(* C4.  The start given to a flexible event is the earliest candidate of   *)
(* the grid that overlaps no anchored or earlier placed event.             *)
C4_EarliestFreeCandidate ==
    \A i \in 1..Len(lastRun.out) :
        LET o == lastRun.out[i]
            free == freeCandidates(SubSeq(lastRun.out, 1, i - 1), lastRun.now,
                                   o.duration)
        IN (isFlexibleEvent(o) /\ o.isScheduled /\ o.duration > 0)
           => /\ o.scheduledTime \in free
              /\ \A c \in free : o.scheduledTime <= c

(* app.js: the events of a list that carry a scheduled_time, but for one id *)
jsScheduledWithout(list, id) ==
    SelectSeq(list, LAMBDA e : jsIsScheduled(e) /\ e.id # id)

(* app.js: two events without fixed_time whose start windows share a minute *)
jsWindowsOverlap(a, b) ==
    /\ a.fixed_time = Undefined /\ b.fixed_time = Undefined
    /\ a.earliest_start # Undefined /\ a.latest_start # Undefined
    /\ b.earliest_start # Undefined /\ b.latest_start # Undefined
    /\ a.earliest_start <= b.latest_start
    /\ b.earliest_start <= a.latest_start

(* C5.  Priority monotonicity: of two flexible events with overlapping     *)
(* windows, both unscheduled on input, the one with the greater priority   *)
(* number is never the one that is placed while the one with the smaller   *)
(* number is left unscheduled although it fits once the other is removed.  *)
C5_LowerNumberWins ==
    jsLastRun.runs >= 1 =>
      \A i, j \in 1..Len(jsLastRun.in) :
        LET a == jsLastRun.in[i]
            b == jsLastRun.in[j]
        IN (/\ a.priority < b.priority
            /\ jsIsUnscheduled(a) /\ jsIsUnscheduled(b)
            /\ jsWindowsOverlap(a, b)
            /\ findAvailableSlot(a, jsScheduledWithout(jsLastRun.out, b.id))
                  # Undefined)
           => ~(jsIsScheduled(jsLastRun.out[j]) /\ jsIsUnscheduled(jsLastRun.out[i]))

(* the schedule of a list: what each event id is given *)
scheduleOf(list) ==
    { <<list[i].id, list[i].scheduledTime, list[i].isScheduled>> : i \in 1..Len(list) }

(* C6.  Two runs of optimize on the same input list give the same output.  *)
(* As stated (whatever the clock shows at the two runs):                   *)
C6_SameInputSameOutput ==
    (lastRun.runs = 2 /\ lastRun.prevIn = lastRun.in)
       => lastRun.prevOut = lastRun.out

(* C6 as amended: two runs on the same input list on the same calendar     *)
(* day, at whatever times of that day, give the same output.               *)
C6_SameInputSameDaySameOutput ==
    (/\ lastRun.runs = 2
     /\ lastRun.prevIn = lastRun.in
     /\ sameDay(lastRun.prevNow, lastRun.now))
       => lastRun.prevOut = lastRun.out

(* two runs on one input at different times of one day, a flexible event   *)
(* placed                                                                  *)
C6_Witness ==
    /\ lastRun.runs = 2
    /\ lastRun.prevIn = lastRun.in
    /\ sameDay(lastRun.prevNow, lastRun.now)
    /\ lastRun.prevNow # lastRun.now
    /\ \E i \in 1..Len(lastRun.out) :
          isFlexibleEvent(lastRun.out[i]) /\ lastRun.out[i].isScheduled

(* C7.  Running optimize on the list a previous optimize produced changes  *)
(* no event's scheduledTime or isScheduled.                                *)
C7_ReoptimizeKeepsSchedule ==
    (lastRun.runs = 2 /\ lastRun.in = lastRun.prevOut)
       => scheduleOf(lastRun.out) = scheduleOf(lastRun.in)

(* C8.  A flexible event for which the search finds no slot in the horizon *)
(* is output with isScheduled = false and without a scheduledTime.         *)
C8_NoSlotLeavesUnscheduled ==
    \A i \in 1..Len(lastRun.out) :
        LET o == lastRun.out[i]
        IN (/\ isFlexibleEvent(o)
            /\ tryDays(SubSeq(lastRun.out, 1, i - 1), lastRun.now, 0,
                       o.duration) = Undefined)
           => o.isScheduled = FALSE /\ o.scheduledTime = Undefined

(* C9.  When the input holds a malformed event (duration <= 0 or a         *)
(* fixedTime that cannot be read) optimize places nothing: no event's      *)
(* scheduledTime or isScheduled changes.                                   *)
C9_MalformedBatchUntouched ==
    (lastRun.runs > 0 /\ \E k \in 1..Len(lastRun.in) : isMalformed(lastRun.in[k]))
       => scheduleOf(lastRun.out) = scheduleOf(lastRun.in)

(* C10.  A flexible event whose explicit window is narrower than its       *)
(* duration never receives a scheduledTime.                                *)
C10_NarrowWindowNeverPlaced ==
    \A i \in 1..Len(events) :
        (/\ isFlexibleEvent(events[i]) /\ hasWindow(events[i])
         /\ events[i].latestStart - events[i].earliestStart < events[i].duration)
           => events[i].scheduledTime = Undefined /\ ~events[i].isScheduled

(* C11.  A flexible event whose window is exactly as long as its duration  *)
(* is, when no other output event occupies the window, placed at exactly   *)
(* earliestStart.                                                          *)
C11_ExactWindowPlacedAtEarliest ==
    \A i \in 1..Len(lastRun.out) :
        LET o == lastRun.out[i]
        IN (/\ isFlexibleEvent(o) /\ hasWindow(o) /\ o.duration > 0
            /\ o.latestStart - o.earliestStart = o.duration
            /\ \A j \in 1..Len(lastRun.out) :
                  (j # i /\ lastRun.out[j].isScheduled
                         /\ hasConcreteTime(lastRun.out[j]))
                     => ~reallyOverlap(lastRun.out[j],
                                       candidateEvent(o.earliestStart, o.duration)))
           => o.isScheduled /\ o.scheduledTime = o.earliestStart

(* app.js: a class of the weekly schedule, without a date of its own *)
jsIsRecurring(e) ==
    /\ e.dayOfWeek # Undefined /\ timeMatch(e.fixedTime) # << >>
    /\ e.scheduled_time = Undefined

jsMinuteOfDay(e) ==
    IF jsIsRecurring(e)
    THEN timeMatch(e.fixedTime)[1] * 60 + timeMatch(e.fixedTime)[2]
    ELSE e.scheduled_time % MinutesPerDay

(* the pairs of ids findConflicts reports, in either order *)
jsReported(list, a, b) ==
    \E k \in 1..Len(findConflicts(list)) :
        findConflicts(list)[k] \in { <<a.id, b.id>>, <<b.id, a.id>> }

(* C12.  findConflicts reports a pair of recurring events if and only if   *)
(* their dayOfWeek is the same and their intervals                         *)
(* [fixedTime, fixedTime + duration) overlap.                              *)
C12_RecurringPairReported ==
    \A i, j \in 1..Len(jsEvents) :
        LET a == jsEvents[i]
            b == jsEvents[j]
        IN (i < j /\ jsIsRecurring(a) /\ jsIsRecurring(b))
           => (jsReported(jsEvents, a, b)
               <=> (/\ a.dayOfWeek = b.dayOfWeek
                    /\ intervalsMeet(jsMinuteOfDay(a), a.duration,
                                     jsMinuteOfDay(b), b.duration)))

(* what hasConflict answers when the slot of the one-off event o is tested *)
(* against the existing event e                                            *)
slotConflictsWith(e, o) ==
    conflictsWith(e, o.scheduledTime, o.scheduledTime % MinutesPerDay, o.duration)

(* C13.  A recurring event and a one-off event are in conflict if and only *)
(* if the weekday of the one-off event's date is the recurring event's     *)
(* dayOfWeek and their intervals of the day, minutes included, overlap.    *)
C13_RecurringAgainstOneOff ==
    \A i, j \in 1..Len(events) :
        LET e == events[i]
            o == events[j]
        IN (/\ isRecurring(e) /\ ~isOneOff(e) /\ isOneOff(o) /\ ~isRecurring(o)
            /\ e.duration > 0 /\ o.duration > 0)
           => (slotConflictsWith(e, o)
               <=> (/\ getDay(o.scheduledTime) = e.dayOfWeek
                    /\ intervalsMeet(minuteOfDay(e), e.duration,
                                     minuteOfDay(o), o.duration)))

(* C14.  Two one-off events are in conflict if and only if they fall on    *)
(* the same calendar date and their intervals overlap.                     *)
C14_OneOffAgainstOneOff ==
    \A i, j \in 1..Len(events) :
        LET e == events[i]
            o == events[j]
        IN (/\ i # j /\ isOneOff(e) /\ ~isRecurring(e) /\ isOneOff(o)
            /\ e.duration > 0 /\ o.duration > 0)
           => (slotConflictsWith(e, o)
               <=> (/\ sameDay(e.scheduledTime, o.scheduledTime)
                    /\ intervalsMeet(e.scheduledTime, e.duration,
                                     o.scheduledTime, o.duration)))

(* C15.  The conflict list holds unordered pairs: no event is paired with  *)
(* itself, no pair appears twice in either order, and only events with a   *)
(* scheduled_time appear in a pair.                                        *)
C15_ConflictsAreUnorderedPairs ==
    LET conflicts == findConflicts(jsEvents)
    IN /\ \A k \in 1..Len(conflicts) :
             /\ conflicts[k][1] # conflicts[k][2]
             /\ \A n \in 1..2 :
                   \E i \in 1..Len(jsEvents) :
                       /\ jsEvents[i].id = conflicts[k][n]
                       /\ jsEvents[i].scheduled_time # Undefined
       /\ \A k, l \in 1..Len(conflicts) :
             k # l => /\ conflicts[k] # conflicts[l]
                      /\ conflicts[k] # <<conflicts[l][2], conflicts[l][1]>>

(* three events that overlap one another: three pairs are reported *)
C15_Witness ==
    Len(findConflicts(jsEvents)) >= 3

(* C16.  No flexible event carries a scheduledTime whose date is a         *)
(* Saturday or a Sunday, whatever day localOptimize is run on.             *)
C16_NeverOnWeekend ==
    \A i \in 1..Len(events) :
        (isFlexibleEvent(events[i]) /\ events[i].scheduledTime # Undefined)
           => getDay(events[i].scheduledTime) \notin {0, 6}

(* localOptimize run on a Saturday or a Sunday has placed a flexible event *)
C16_Witness ==
    /\ lastRun.runs >= 1
    /\ getDay(lastRun.now) \in {0, 6}
    /\ \E i \in 1..Len(events) :
          isFlexibleEvent(events[i]) /\ events[i].isScheduled

(* C17.  Every scheduledTime of a flexible event lies inside the working   *)
(* hours of its day (start >= 08:00, start + duration <= 20:00), and a     *)
(* flexible event longer than the working hours is never placed.           *)
C17_InsideWorkingHours ==
    \A i \in 1..Len(events) :
        LET e == events[i]
        IN isFlexibleEvent(e) =>
             /\ (e.scheduledTime # Undefined =>
                   /\ e.scheduledTime % MinutesPerDay >= workDayStart * 60
                   /\ (e.scheduledTime % MinutesPerDay) + e.duration
                         <= workDayEnd * 60)
             /\ (e.duration > (workDayEnd - workDayStart) * 60 =>
                   (~e.isScheduled /\ e.scheduledTime = Undefined))

(* localOptimize has run on a list with a flexible event longer than the   *)
(* working hours and has placed another flexible event                     *)
C17_Witness ==
    /\ lastRun.runs >= 1
    /\ \E i \in 1..Len(events) :
          /\ isFlexibleEvent(events[i])
          /\ events[i].duration > (workDayEnd - workDayStart) * 60
    /\ \E i \in 1..Len(events) :
          isFlexibleEvent(events[i]) /\ events[i].isScheduled

(* C18.  A flexible event without a window is never placed earlier than    *)
(* the instant at which localOptimize is called, and never later than the  *)
(* end of the horizon of 14 days.                                          *)
C18_NotBeforeNow ==
    \A i \in 1..Len(lastRun.out) :
        LET o == lastRun.out[i]
        IN (isFlexibleEvent(o) /\ o.isScheduled /\ ~hasWindow(o))
           => /\ o.scheduledTime >= lastRun.now
              /\ o.scheduledTime <= lastRun.now + HorizonDays * MinutesPerDay

(* Scenario 2: the list holds one flexible event (60 minutes, priority 1,  *)
(* no window) and one mandatory event at 09:00-10:00 of the day of the run *)
isScenario2(list, flexible, mandatory) ==
    /\ Len(list) = 2 /\ {flexible, mandatory} = {1, 2}
    /\ isFlexibleEvent(list[flexible]) /\ ~hasWindow(list[flexible])
    /\ list[flexible].duration = 60 /\ list[flexible].priority = 1
    /\ list[mandatory].type = "mandatory" /\ list[mandatory].duration = 60
    /\ list[mandatory].dayOfWeek = Undefined
    /\ timeMatch(list[mandatory].fixedTime) = <<9, 0>>

(* the instant lies on a weekday, inside the working hours *)
inWorkingHours(t) ==
    /\ getDay(t) \notin {0, 6}
    /\ t % MinutesPerDay >= workDayStart * 60
    /\ t % MinutesPerDay < workDayEnd * 60

(* C19.  Scenario 2: the flexible event is placed at 10:00 of the day of   *)
(* the run when that day is a weekday and the run falls inside working     *)
(* hours, and otherwise at the first free slot of a weekday after the run. *)
C19_Scenario2 ==
    \A f, m \in 1..Len(lastRun.in) :
        isScenario2(lastRun.in, f, m) =>
          \A i \in outputsOf(lastRun.out, lastRun.in[f]) :
            LET o == lastRun.out[i]
                later == { c \in freeCandidates(SubSeq(lastRun.out, 1, i - 1),
                                                lastRun.now, 60) :
                             c >= lastRun.now }
            IN IF inWorkingHours(lastRun.now)
               THEN o.isScheduled /\ o.scheduledTime = setHours(lastRun.now, 10, 0)
               ELSE /\ o.isScheduled
                    /\ o.scheduledTime \in later
                    /\ \A c \in later : o.scheduledTime <= c

(* the number of weekdays among the days of the horizon that starts at t *)
weekdaysInHorizon(t) ==
    Cardinality({ k \in 0..(HorizonDays - 1) :
                     getDay(t + k * MinutesPerDay) \notin {0, 6} })

isLongEvent(e) ==
    /\ isFlexibleEvent(e) /\ ~hasWindow(e)
    /\ e.priority = 2 /\ e.duration = 480

onePerDay(list) ==
    \A i, j \in 1..Len(list) :
        (i # j /\ list[i].isScheduled /\ list[j].isScheduled)
           => ~sameDay(list[i].scheduledTime, list[j].scheduledTime)

(* C20.  Scenario 4 as stated: of ten flexible events of priority 2 and    *)
(* 480 minutes at most one is placed on any day, and events 3 to 10 are    *)
(* reported unscheduled.                                                   *)
C20_Scenario4 ==
    (/\ lastRun.runs >= 1 /\ Len(lastRun.in) = 10
     /\ \A i \in 1..10 : isLongEvent(lastRun.in[i]))
       => /\ onePerDay(lastRun.out)
          /\ \A i \in 3..10 : ~lastRun.out[i].isScheduled

(* C20 as amended: of a list of such events at most one is placed on any   *)
(* day, one on each weekday of the horizon in the order of the list, and   *)
(* only the events beyond the number of weekdays (ten) are unscheduled.    *)
C20_OnePerWeekdayOfHorizon ==
    (/\ lastRun.runs >= 1
     /\ \A i \in 1..Len(lastRun.in) : isLongEvent(lastRun.in[i]))
       => /\ onePerDay(lastRun.out)
          /\ Len(lastRun.out) = Len(lastRun.in)
          /\ \A i \in 1..Len(lastRun.out) :
                /\ lastRun.out[i].id = lastRun.in[i].id
                /\ lastRun.out[i].isScheduled
                      <=> i <= weekdaysInHorizon(lastRun.now)

(* eleven such events optimised: ten placed, the eleventh not *)
C20_Witness ==
    /\ lastRun.runs >= 1
    /\ Len(lastRun.out) = 11
    /\ \A i \in 1..11 : isLongEvent(lastRun.in[i])
    /\ lastRun.out[10].isScheduled
    /\ ~lastRun.out[11].isScheduled

(* C21.  As stated: the reported success rate is exactly the quotient      *)
(* scheduledCount / totalCount (as a percentage), 0 for an empty list, and *)
(* never more than 100%.                                                   *)
C21_RateIsQuotient ==
    /\ (Len(events) = 0 => getSuccessRate(events) = 0)
    /\ getSuccessRate(events) * Len(events) = 100 * scheduledCount(events)
    /\ getSuccessRate(events) <= 100

(* C21 as amended: the reported success rate is the whole percentage       *)
(* nearest to 100 * scheduledCount / totalCount, 0 for an empty list, and  *)
(* never more than 100.                                                    *)
C21_RateIsNearestPercent ==
    LET rate == getSuccessRate(events)
        diff == rate * Len(events) - 100 * scheduledCount(events)
    IN /\ (Len(events) = 0 => rate = 0)
       /\ 2 * diff <= Len(events) /\ -2 * diff <= Len(events)
       /\ rate >= 0 /\ rate <= 100

(* two of three events scheduled: 67 is shown *)
C21_Witness ==
    /\ Len(events) = 3
    /\ scheduledCount(events) = 2
    /\ getSuccessRate(events) = 67

(* the pairs of ids a conflict detector finds in the list: two events with *)
(* a concrete time whose occupied intervals overlap on a date they share   *)
detectedPairs(list) ==
    { {list[i].id, list[j].id} : i, j \in 1..Len(list) } \cap
    { {list[i].id, list[j].id} :
        <<i, j>> \in { p \in (1..Len(list)) \X (1..Len(list)) :
            /\ p[1] < p[2]
            /\ hasConcreteTime(list[p[1]]) /\ hasConcreteTime(list[p[2]])
            /\ list[p[1]].duration > 0 /\ list[p[2]].duration > 0
            /\ reallyOverlap(list[p[1]], list[p[2]]) } }

(* the pairs of ids the stored conflict list names *)
listedPairs ==
    { {calendarData.conflicts[k].event1, calendarData.conflicts[k].event2} :
        k \in 1..Len(calendarData.conflicts) }

(* C22.  Conflicts are never stale: whenever the event set has changed     *)
(* (creation, local optimize, deletion) the conflict list held with the    *)
(* events names exactly the pairs the conflict detector finds in the       *)
(* current events.                                                         *)
C22_ConflictsNeverStale ==
    listedPairs = detectedPairs(events)

(* a and b only touch: one ends at the minute of the day the other starts *)
touching(a, b) ==
    \/ minuteOfDay(a) + a.duration = minuteOfDay(b)
    \/ minuteOfDay(b) + b.duration = minuteOfDay(a)

(* C23.  The overlap test is half-open: a candidate slot of the search     *)
(* grid that ends at the instant an event of the list starts, or starts at *)
(* the instant it ends, is never treated as conflicting with that event by *)
(* the slot finder.                                                        *)
C23_TouchingNeverConflicts ==
    \A i, j \in 1..Len(events) :
        LET e == events[i]
            duration == events[j].duration
        IN (hasConcreteTime(e) /\ e.duration > 0 /\ duration > 0)
           => \A c \in gridCandidates(now, duration) :
                 touching(e, candidateEvent(c, duration))
                    => ~slotConflictsWith(e, candidateEvent(c, duration))

(* the place of the event with this id in a list (0 when absent) *)
indexOf(list, id) ==
    IF \E i \in 1..Len(list) : list[i].id = id
    THEN CHOOSE i \in 1..Len(list) : list[i].id = id
    ELSE 0

(* two flexible events alike in priority, duration and window *)
alikeFlexible(a, b) ==
    /\ isFlexibleEvent(a) /\ isFlexibleEvent(b)
    /\ a.priority = b.priority /\ a.duration = b.duration
    /\ a.earliestStart = b.earliestStart /\ a.latestStart = b.latestStart

mostCandidates ==
    HorizonDays * (((workDayEnd - workDayStart) * 60) \div SlotMinutes + 1)

(* C25.  Every slot search that begins comes to its end, with a slot or    *)
(* without one: the search of localOptimize after at most 14 days of half  *)
(* hours inside the working hours, the while loop of findAvailableSlot by  *)
(* the time currentTime passes its end constraint.                         *)
C25_SearchTerminates ==
    /\ [](search.pc \in {"day", "hour"} => search.steps <= mostCandidates)
    /\ [](search.pc = "while" =>
             /\ search.currentTime <= search.endConstraint + JsStepMinutes
             /\ search.steps * JsStepMinutes
                   <= search.endConstraint - search.startTime + JsStepMinutes)
    /\ (search.pc \in {"day", "hour", "while"}) ~> (search.pc = "done")

(* a search of the page that tried several slots and ended without one *)
C25_Witness ==
    /\ search.pc = "done"
    /\ search.currentTime > search.endConstraint
    /\ search.steps >= 2
    /\ search.result = Undefined

(* C26.  The partition of localOptimize into anchored and flexible events  *)
(* is exhaustive and disjoint: every input event is in exactly one of the  *)
(* two lists, the output holds each input event exactly once under its id, *)
(* and the output is as long as the input.                                 *)
C26_PartitionExhaustive ==
    lastRun.runs >= 1 =>
       /\ \A k \in 1..Len(lastRun.in) :
             LET e == lastRun.in[k]
             IN /\ isFixedEvent(e) # isFlexibleEvent(e)
                /\ Cardinality(outputsOf(lastRun.out, e)) = 1
       /\ Len(lastRun.out) = Len(lastRun.in)

(* C27.  Every output event with isScheduled = true has an occupied time   *)
(* that can be resolved (a scheduledTime, or a dayOfWeek with a fixedTime  *)
(* that parses), and a flexible output event with isScheduled = true       *)
(* carries a scheduledTime of the search of this run.                      *)
C27_ScheduledHasTime ==
    \A i \in 1..Len(lastRun.out) :
        LET o == lastRun.out[i]
        IN o.isScheduled =>
             /\ resolvedStart(o) # << >>
             /\ (isFlexibleEvent(o) =>
                    o.scheduledTime \in gridCandidates(lastRun.now, o.duration))

(* a wall-clock string H:MM or HH:MM with an optional AM or PM: hours 0-23 *)
(* (1-12 with a suffix) and minutes 0-59                                   *)
wellFormed(fixedTime) ==
    /\ Len(fixedTime) = 3
    /\ fixedTime[2] \in 0..59
    /\ IF fixedTime[3] = "" THEN fixedTime[1] \in 0..23
       ELSE fixedTime[1] \in 1..12

(* the hour of the day such a string names *)
rightHour(fixedTime) ==
    IF fixedTime[3] = "AM" THEN fixedTime[1] % 12
    ELSE IF fixedTime[3] = "PM" THEN (fixedTime[1] % 12) + 12
    ELSE fixedTime[1]

(* C28.  The wall-clock parse gives every well-formed H:MM / HH:MM string  *)
(* with optional AM/PM its 24-hour time (12 AM is 0, 12 PM is 12, other PM *)
(* hours gain 12, minutes kept), and a malformed string makes the run fail *)
(* with a parse error: no run completes on an event whose fixedTime is     *)
(* malformed, neither with a time for it nor by skipping it.               *)
C28_ParseOrFail ==
    \A k \in 1..Len(lastRun.in) :
        LET e == lastRun.in[k]
        IN (Truthy(e.fixedTime) /\ e.dayOfWeek = Undefined) =>
             /\ wellFormed(e.fixedTime)
             /\ \A i \in outputsOf(lastRun.out, e) :
                   lastRun.out[i].scheduledTime =
                       at(lastRun.now \div MinutesPerDay,
                          rightHour(e.fixedTime), e.fixedTime[2])

(* C29.  As stated: getNextWeekday(fromDate, targetWeekday) is the         *)
(* smallest date >= fromDate that has the target weekday: the result lies  *)
(* 0 to 6 days after fromDate, and is fromDate itself when fromDate        *)
(* already has that weekday.                                               *)
C29_SameOrNextWeekday ==
    timeInfo.word = "weekday" =>
       /\ getDay(timeInfo.targetDate) = timeInfo.targetDay
       /\ \E d \in 0..6 : timeInfo.targetDate = addDays(timeInfo.today, d)
       /\ (getDay(timeInfo.today) = timeInfo.targetDay
              => timeInfo.targetDate = timeInfo.today)

(* C29 as amended: getNextWeekday(fromDate, targetWeekday) is the smallest *)
(* date strictly after fromDate that has the target weekday: the result    *)
(* lies 1 to 7 days after fromDate, at the same time of day, and is a week *)
(* after fromDate when fromDate already has that weekday.                  *)
C29_StrictlyNextWeekday ==
    timeInfo.word = "weekday" =>
       /\ getDay(timeInfo.targetDate) = timeInfo.targetDay
       /\ \E d \in 1..7 : timeInfo.targetDate = addDays(timeInfo.today, d)
       /\ \A d \in 1..7 :
             getDay(addDays(timeInfo.today, d)) = timeInfo.targetDay
                => timeInfo.targetDate <= addDays(timeInfo.today, d)
       /\ (getDay(timeInfo.today) = timeInfo.targetDay
              => timeInfo.targetDate = addDays(timeInfo.today, 7))

(* the sentence names the weekday of today and the date read is a week on *)
C29_Witness ==
    /\ timeInfo.word = "weekday"
    /\ getDay(timeInfo.today) = timeInfo.targetDay
    /\ timeInfo.targetDate = addDays(timeInfo.today, 7)

(* C30.  No update of the event list is lost: whenever every handler that  *)
(* was called has finished, the list holds every event that was created    *)
(* and not deleted (and that localOptimize keeps) and no event that was    *)
(* deleted.                                                                *)
C30_NoLostUpdate ==
    pending = {} =>
       /\ \A e \in createdEvents :
             (e.id \notin deletedIds /\ (isFixedEvent(e) \/ isFlexibleEvent(e)))
                => \E i \in 1..Len(events) : events[i].id = e.id
       /\ \A i \in 1..Len(events) : events[i].id \notin deletedIds

====
